---- MODULE Spec2Model ----
(***************************************************************************)
(* Model of tbears/block_manager/channel_service.py: the ChannelInnerTask  *)
(* message handlers (create_icx_tx, get_invoke_result, get_tx_info,        *)
(* get_block) running as asyncio tasks over one BlockManager.              *)
(*                                                                         *)
(* Representation of Python values:                                        *)
(*   str        a sequence of tokens ("" is << >>, + is \o)                *)
(*   dict       kwargs: a sequence of <<key, value>> pairs in insertion    *)
(*              order ({} is << >>); queue entries, blocks and results:    *)
(*              records                                                    *)
(*   None       the record None                                            *)
(*   int|None   IntObj(n) or None                                          *)
(***************************************************************************)
EXTENDS Integers, Sequences, FiniteSets, TLC

\* ---------------------------------------------------------------- bounds
NumTasks == 2
MaxFields == 2
MaxLost == 2

TaskIds == 1..NumTasks

\* ------------------------------------------------------- Python values
None == [type |-> "NoneType"]

IntObj(n) == [int |-> n]

\* bool(v): None, 0, "", {} and [] are false, everything else is true
Truthy(v) == v /= None /\ v /= << >> /\ v /= IntObj(0)

\* ------------------------------------------- message_code.Response
success == 0
fail_tx_invalid_duplicated_hash == -16
fail_tx_not_invoked == -18
fail_tx_invalid_hash_not_match == -14
fail_wrong_block_hash == -27
fail_wrong_block_height == -28

\* ------------------------------------------------------ request inputs
Keys == {"from", "to"}
Vals == {"hx1"}

\* dict keys are unique
DistinctKeys(d) == \A a, b \in 1..Len(d) : a /= b => d[a][1] /= d[b][1]

\* the transaction mappings a client can send, in every insertion order
Txs == {d \in UNION {[1..n -> Keys \X Vals] : n \in 0..MaxFields} : DistinctKeys(d)}

\* json.dumps(kwargs): the items in insertion order (no sort_keys)
RECURSIVE json_dumps(_)
json_dumps(d) ==
    IF d = << >> THEN << >>
    ELSE <<d[1][1], ":", d[1][2], ",">> \o json_dumps(Tail(d))

\* str.encode(): the bytes of the text, one for one
encode(s) == s

\* create_hash(data): sha3_256(data).hexdigest(), taken as collision free
create_hash(data) == <<"sha3">> \o data

\* ------------------------------------------------------------- state
VARIABLES
    tx_queue,   \* block_manager.tx_queue: the pending entries, oldest first
    blocks,     \* block_manager._block: the committed blocks, by height
    tasks,      \* the message queue tasks: request, position and response
    clock,      \* number of submission and commit events so far
    commits,    \* the clock values at which a block was committed
    n_add_tx,   \* number of entries ever appended to tx_queue
    n_lost,     \* number of connection-lost callbacks so far
    n_close,    \* number of block_manager.close() calls so far
    n_reconnect \* number of attempts to connect to the message queue again

vars == <<tx_queue, blocks, tasks, clock, commits, n_add_tx, n_lost, n_close,
          n_reconnect>>

\* the state of the ChannelService connection callback
service == <<n_lost, n_close, n_reconnect>>

\* --------------------------------------------- BlockManager and Block
\* block_manager.add_tx(tx_hash, tx): append the entry {hash, tx}
add_tx(q, tx_hash, tx) == Append(q, [txHash |-> tx_hash, tx |-> tx])

\* the committed entries, oldest first
RECURSIVE committed_txs(_)
committed_txs(blks) ==
    IF blks = << >> THEN << >>
    ELSE committed_txs(SubSeq(blks, 1, Len(blks) - 1)) \o blks[Len(blks)].txs

\* block.get_transaction(tx_hash): the committed transaction or None
get_transaction(blks, tx_hash) ==
    LET txs == committed_txs(blks)
        found == {k \in 1..Len(txs) : txs[k].txHash = tx_hash}
    IN IF found = {} THEN None ELSE txs[CHOOSE k \in found : TRUE]

\* block.get_txresult(tx_hash): the committed result or None
get_txresult(blks, tx_hash) ==
    LET found == {n \in 1..Len(blks) :
                    \E k \in 1..Len(blks[n].txs) : blks[n].txs[k].txHash = tx_hash}
    IN IF found = {} THEN None
       ELSE [txHash |-> tx_hash, blockHeight |-> (CHOOSE n \in found : TRUE) - 1]

\* str(n) for a block height
Digits == <<"0", "1", "2", "3", "4", "5", "6", "7", "8", "9">>

\* the hashes of a list of entries, in order
RECURSIVE tx_hashes(_)
tx_hashes(txs) ==
    IF txs = << >> THEN << >> ELSE txs[1].txHash \o <<";">> \o tx_hashes(Tail(txs))

\* the hash of the block at a height
block_hash_of(height) == create_hash(<<"block", Digits[height + 1]>>)

\* the ledger consumes the first k pending entries into a new block
new_block(blks, q, k) ==
    [block_hash |-> block_hash_of(Len(blks)), height |-> Len(blks),
     txs |-> SubSeq(q, 1, k)]

\* -------------------------------------------------------- create_icx_tx
\* the loop of lines 56-58 never matching an entry
scan_tx_queue_no_match(q, tx_hash) == FALSE

\* lines 55-58: duplicated_tx after the loop over block_manager.tx_queue
RECURSIVE scan_tx_queue(_, _)
scan_tx_queue(q, tx_hash) ==
    IF q = << >> THEN FALSE
    ELSE IF tx_hash = Head(q).txHash THEN TRUE
    ELSE scan_tx_queue(Tail(q), tx_hash)

\* line 59 with the operands of `and` swapped: the ledger is always asked
committed_lookup_always(duplicated_tx, blks, tx_hash) ==
    <<[fn |-> "get_transaction", tx_hash |-> tx_hash,
       ret |-> get_transaction(blks, tx_hash)]>>

\* line 59: the ledger is asked only when duplicated_tx is False
committed_lookup(duplicated_tx, blks, tx_hash) ==
    IF duplicated_tx = FALSE
    THEN <<[fn |-> "get_transaction", tx_hash |-> tx_hash,
            ret |-> get_transaction(blks, tx_hash)]>>
    ELSE << >>

\* lines 59-60 without the committed check
check_committed_skipped(duplicated_tx, lookup) == duplicated_tx

\* lines 59-60: duplicated_tx after the committed check
check_committed(duplicated_tx, lookup) ==
    IF duplicated_tx = FALSE /\ Truthy(lookup[1].ret) THEN TRUE ELSE duplicated_tx

\* lines 52-69 with the append of line 66 moved before the return of line 63
create_icx_tx_run_append_first(kwargs, q, blks) ==
    LET tx_hash == create_hash(encode(json_dumps(kwargs)))
        pending == scan_tx_queue(q, tx_hash)
        lookup == committed_lookup(pending, blks, tx_hash)
        duplicated_tx == check_committed(pending, lookup)
        calls == <<[fn |-> "tx_queue"]>> \o lookup
    IN IF duplicated_tx
       THEN [resp |-> <<fail_tx_invalid_duplicated_hash, None>>,
             tx_queue |-> add_tx(q, tx_hash, kwargs), calls |-> calls]
       ELSE [resp |-> <<success, [str |-> <<"0x">> \o tx_hash]>>,
             tx_queue |-> add_tx(q, tx_hash, kwargs), calls |-> calls]

\* lines 52-69 with the hash returned on line 63 as well
create_icx_tx_run_hash_on_fail(kwargs, q, blks) ==
    LET tx_hash == create_hash(encode(json_dumps(kwargs)))
        pending == scan_tx_queue(q, tx_hash)
        lookup == committed_lookup(pending, blks, tx_hash)
        duplicated_tx == check_committed(pending, lookup)
        calls == <<[fn |-> "tx_queue"]>> \o lookup
    IN IF duplicated_tx
       THEN [resp |-> <<fail_tx_invalid_duplicated_hash, [str |-> <<"0x">> \o tx_hash]>>,
             tx_queue |-> q, calls |-> calls]
       ELSE [resp |-> <<success, [str |-> <<"0x">> \o tx_hash]>>,
             tx_queue |-> add_tx(q, tx_hash, kwargs), calls |-> calls]

\* lines 52-69 with line 69 returning the hash without the "0x" prefix
create_icx_tx_run_no_prefix(kwargs, q, blks) ==
    LET tx_hash == create_hash(encode(json_dumps(kwargs)))
        pending == scan_tx_queue(q, tx_hash)
        lookup == committed_lookup(pending, blks, tx_hash)
        duplicated_tx == check_committed(pending, lookup)
        calls == <<[fn |-> "tx_queue"]>> \o lookup
    IN IF duplicated_tx
       THEN [resp |-> <<fail_tx_invalid_duplicated_hash, None>>,
             tx_queue |-> q, calls |-> calls]
       ELSE [resp |-> <<success, [str |-> tx_hash]>>,
             tx_queue |-> add_tx(q, tx_hash, kwargs), calls |-> calls]

\* lines 52-69 with the new entry put at the head of the queue
create_icx_tx_run_prepend(kwargs, q, blks) ==
    LET tx_hash == create_hash(encode(json_dumps(kwargs)))
        pending == scan_tx_queue(q, tx_hash)
        lookup == committed_lookup(pending, blks, tx_hash)
        duplicated_tx == check_committed(pending, lookup)
        calls == <<[fn |-> "tx_queue"]>> \o lookup
    IN IF duplicated_tx
       THEN [resp |-> <<fail_tx_invalid_duplicated_hash, None>>,
             tx_queue |-> q, calls |-> calls]
       ELSE [resp |-> <<success, [str |-> <<"0x">> \o tx_hash]>>,
             tx_queue |-> <<[txHash |-> tx_hash, tx |-> kwargs]>> \o q,
             calls |-> calls]

\* lines 52-69: the handler's response, the queue it leaves and its reads
create_icx_tx_run(kwargs, q, blks) ==
    LET tx_hash == create_hash(encode(json_dumps(kwargs)))
        pending == scan_tx_queue(q, tx_hash)
        lookup == committed_lookup(pending, blks, tx_hash)
        duplicated_tx == check_committed(pending, lookup)
        calls == <<[fn |-> "tx_queue"]>> \o lookup
    IN IF duplicated_tx
       THEN [resp |-> <<fail_tx_invalid_duplicated_hash, None>>,
             tx_queue |-> q, calls |-> calls]
       ELSE [resp |-> <<success, [str |-> <<"0x">> \o tx_hash]>>,
             tx_queue |-> add_tx(q, tx_hash, kwargs), calls |-> calls]

\* ---------------------------------------------------- get_invoke_result
\* lines 79-85 with line 83 returning a bare -1
get_invoke_result_run_generic_fail(tx_hash, q, blks) ==
    LET tx_data_json == get_txresult(blks, tx_hash)
        calls == <<[fn |-> "get_txresult", tx_hash |-> tx_hash, ret |-> tx_data_json]>>
    IN IF tx_data_json = None
       THEN [resp |-> <<-1, << >> >>, calls |-> calls]
       ELSE [resp |-> <<success, tx_data_json>>, calls |-> calls]

\* lines 79-85, with self._block_manager as (q, blks)
get_invoke_result_run(tx_hash, q, blks) ==
    LET tx_data_json == get_txresult(blks, tx_hash)
        calls == <<[fn |-> "get_txresult", tx_hash |-> tx_hash, ret |-> tx_data_json]>>
    IN IF tx_data_json = None
       THEN [resp |-> <<fail_tx_not_invoked, << >> >>, calls |-> calls]
       ELSE [resp |-> <<success, tx_data_json>>, calls |-> calls]

\* ---------------------------------------------------------- get_tx_info
\* lines 95-101 falling back to the pending entries of block_manager.tx_queue
get_tx_info_run_pending(tx_hash, q, blks) ==
    LET found == {k \in 1..Len(q) : q[k].txHash = tx_hash}
        committed == get_transaction(blks, tx_hash)
        tx_data_json == IF committed = None /\ found /= {}
                        THEN q[CHOOSE k \in found : TRUE] ELSE committed
        calls == <<[fn |-> "get_transaction", tx_hash |-> tx_hash, ret |-> committed]>>
    IN IF tx_data_json = None
       THEN [resp |-> <<fail_tx_invalid_hash_not_match, << >> >>, calls |-> calls]
       ELSE [resp |-> <<success, tx_data_json>>, calls |-> calls]

\* lines 95-101, with self._block_manager as (q, blks)
get_tx_info_run(tx_hash, q, blks) ==
    LET tx_data_json == get_transaction(blks, tx_hash)
        calls == <<[fn |-> "get_transaction", tx_hash |-> tx_hash, ret |-> tx_data_json]>>
    IN IF tx_data_json = None
       THEN [resp |-> <<fail_tx_invalid_hash_not_match, << >> >>, calls |-> calls]
       ELSE [resp |-> <<success, tx_data_json>>, calls |-> calls]

\* ------------------------------------------------------------ get_block
\* block.get_last_block(): the newest block or None
get_last_block(blks) == IF blks = << >> THEN None ELSE blks[Len(blks)]

\* block.get_block_by_hash(block_hash): the block with this hash or None
get_block_by_hash(blks, block_hash) ==
    LET found == {n \in 1..Len(blks) : blks[n].block_hash = block_hash}
    IN IF found = {} THEN None ELSE blks[CHOOSE n \in found : TRUE]

\* block.get_block_by_height(block_height): the block at this height or None
get_block_by_height(blks, block_height) ==
    IF block_height + 1 \in 1..Len(blks) THEN blks[block_height + 1] ELSE None

\* lines 120-134 with the height tested before the hash
select_fetch_height_first(block_height, block_hash, blks) ==
    IF block_hash = << >> /\ block_height = -1
    THEN [fn |-> "get_last_block", ret |-> get_last_block(blks),
          fail |-> fail_wrong_block_hash]
    ELSE IF block_height /= -1
    THEN [fn |-> "get_block_by_height", block_height |-> block_height,
          ret |-> get_block_by_height(blks, block_height),
          fail |-> fail_wrong_block_height]
    ELSE [fn |-> "get_block_by_hash", block_hash |-> block_hash,
          ret |-> get_block_by_hash(blks, block_hash),
          fail |-> fail_wrong_block_hash]

\* lines 120-134 with line 124 setting fail_wrong_block_height
select_fetch_latest_height_code(block_height, block_hash, blks) ==
    IF block_hash = << >> /\ block_height = -1
    THEN [fn |-> "get_last_block", ret |-> get_last_block(blks),
          fail |-> fail_wrong_block_height]
    ELSE IF block_hash /= << >>
    THEN [fn |-> "get_block_by_hash", block_hash |-> block_hash,
          ret |-> get_block_by_hash(blks, block_hash),
          fail |-> fail_wrong_block_hash]
    ELSE [fn |-> "get_block_by_height", block_height |-> block_height,
          ret |-> get_block_by_height(blks, block_height),
          fail |-> fail_wrong_block_height]

\* lines 120-134: the one fetch the request selects, and its failure code
select_fetch(block_height, block_hash, blks) ==
    IF block_hash = << >> /\ block_height = -1
    THEN [fn |-> "get_last_block", ret |-> get_last_block(blks),
          fail |-> fail_wrong_block_hash]
    ELSE IF block_hash /= << >>
    THEN [fn |-> "get_block_by_hash", block_hash |-> block_hash,
          ret |-> get_block_by_hash(blks, block_hash),
          fail |-> fail_wrong_block_hash]
    ELSE [fn |-> "get_block_by_height", block_height |-> block_height,
          ret |-> get_block_by_height(blks, block_height),
          fail |-> fail_wrong_block_height]

\* json.dumps(block_data_json)
json_dumps_block(b) ==
    <<"block_hash", ":">> \o b.block_hash
       \o <<",", "height", ":", Digits[b.height + 1], ",", "txs", ":">>
       \o tx_hashes(b.txs)

\* lines 116-145 without the rebinding of block_hash on line 139
get_block_run_input_hash(block_height, block_hash, block_data_filter, tx_data_filter, blks) ==
    LET fetch == select_fetch(block_height, block_hash, blks)
        block_data_json == fetch.ret
        fail_response_code == IF block_data_json = None THEN IntObj(fetch.fail) ELSE None
    IN IF Truthy(fail_response_code)
       THEN [resp |-> <<fail_response_code.int, block_hash, << >>, << >> >>,
             calls |-> <<fetch>>]
       ELSE [resp |-> <<success, block_hash,
                        json_dumps_block(block_data_json), << >> >>,
             calls |-> <<fetch>>]

\* lines 116-145 with one fetch for the hash and another for the body
get_block_run_fetch_twice(block_height, block_hash, block_data_filter, tx_data_filter, blks) ==
    LET fetch == select_fetch(block_height, block_hash, blks)
        block_data_json == fetch.ret
        fail_response_code == IF block_data_json = None THEN IntObj(fetch.fail) ELSE None
    IN IF Truthy(fail_response_code)
       THEN [resp |-> <<fail_response_code.int, block_hash, << >>, << >> >>,
             calls |-> <<fetch, fetch>>]
       ELSE [resp |-> <<success, block_data_json.block_hash,
                        json_dumps_block(block_data_json), << >> >>,
             calls |-> <<fetch, fetch>>]

\* lines 116-145
get_block_run(block_height, block_hash, block_data_filter, tx_data_filter, blks) ==
    LET fetch == select_fetch(block_height, block_hash, blks)
        block_data_json == fetch.ret
        fail_response_code == IF block_data_json = None THEN IntObj(fetch.fail) ELSE None
    IN IF Truthy(fail_response_code)
       THEN [resp |-> <<fail_response_code.int, block_hash, << >>, << >> >>,
             calls |-> <<fetch>>]
       ELSE [resp |-> <<success, block_data_json.block_hash,
                        json_dumps_block(block_data_json), << >> >>,
             calls |-> <<fetch>>]

\* ------------------------------------------------------ ChannelService
\* lines 151-153 without the close() call
connection_lost_run_no_close(q) == [close |-> 0, reconnect |-> 0, tx_queue |-> q]

\* lines 151-153: what the callback does with the block manager: one close()
\* call, no new connection, tx_queue not touched
connection_lost_run(q) == [close |-> 1, reconnect |-> 0, tx_queue |-> q]

\* ------------------------------------------------------------- tasks
NoReq == [op |-> "none"]

IdleTask == [pc |-> "idle", req |-> NoReq, resp |-> << >>, calls |-> << >>,
             arrived |-> 0, finished |-> 0, fresh |-> FALSE, ledger0 |-> 0]

\* the hash is neither pending nor committed
Absent(q, blks, tx_hash) ==
    /\ \A k \in 1..Len(q) : q[k].txHash /= tx_hash
    /\ get_transaction(blks, tx_hash) = None

tx_hash_of(kwargs) == create_hash(encode(json_dumps(kwargs)))

\* the hashes a client can ask about: every transaction's and an unknown one
TxHashes == {tx_hash_of(kwargs) : kwargs \in Txs} \cup {<<"deadbeef">>}

TxRequests ==
    [op : {"create_icx_tx"}, kwargs : Txs]
      \cup [op : {"get_invoke_result", "get_tx_info"}, tx_hash : TxHashes]

\* the transactions, heights, hashes and filters of the block requests
BlockTxs == {d \in Txs : Len(d) = 1}
Heights == {-1, 0, 1}
BlockHashes == {<< >>, block_hash_of(0), block_hash_of(1)}
Filters == {<< >>, <<"f">>}

BlockRequests ==
    [op : {"create_icx_tx"}, kwargs : BlockTxs]
      \cup [op : {"get_block"}, block_height : Heights, block_hash : BlockHashes,
            block_data_filter : Filters, tx_data_filter : Filters]

Init ==
    /\ tx_queue = << >>
    /\ blocks = << >>
    /\ tasks = [i \in TaskIds |-> IdleTask]
    /\ clock = 0
    /\ commits = {}
    /\ n_add_tx = 0
    /\ n_lost = 0
    /\ n_close = 0
    /\ n_reconnect = 0

\* submissions are time stamped, the read-only requests are not
Tick(op) == IF op = "create_icx_tx" THEN clock + 1 ELSE clock

Stamp(op) == IF op = "create_icx_tx" THEN clock + 1 ELSE 0

\* the transport delivers a decoded request: a new task is in flight
Deliver(i, req) ==
    /\ tasks[i].pc = "idle"
    /\ clock' = Tick(req.op)
    /\ tasks' = [tasks EXCEPT ![i] =
                    [@ EXCEPT !.pc = "received", !.req = req,
                              !.arrived = Stamp(req.op),
                              !.ledger0 = Len(blocks),
                              !.fresh = IF req.op = "create_icx_tx"
                                        THEN Absent(tx_queue, blocks,
                                                    tx_hash_of(req.kwargs))
                                        ELSE FALSE]]
    /\ UNCHANGED <<tx_queue, blocks, commits, n_add_tx, service>>

DeliverTx(i) == \E req \in TxRequests : Deliver(i, req)

DeliverBlock(i) == \E req \in BlockRequests : Deliver(i, req)

\* the task's response is sent
Finish(i, resp, calls) ==
    /\ clock' = Tick(tasks[i].req.op)
    /\ tasks' = [tasks EXCEPT ![i] =
                    [@ EXCEPT !.pc = "done", !.resp = resp, !.calls = calls,
                              !.finished = Stamp(tasks[i].req.op)]]

\* the handler body has no await: it runs as one step of the event loop
create_icx_tx(i) ==
    /\ tasks[i].pc = "received"
    /\ tasks[i].req.op = "create_icx_tx"
    /\ LET r == create_icx_tx_run(tasks[i].req.kwargs, tx_queue, blocks)
       IN /\ tx_queue' = r.tx_queue
          /\ n_add_tx' = n_add_tx + (Len(r.tx_queue) - Len(tx_queue))
          /\ Finish(i, r.resp, r.calls)
    /\ UNCHANGED <<blocks, commits, service>>

get_invoke_result(i) ==
    /\ tasks[i].pc = "received"
    /\ tasks[i].req.op = "get_invoke_result"
    /\ LET r == get_invoke_result_run(tasks[i].req.tx_hash, tx_queue, blocks)
       IN Finish(i, r.resp, r.calls)
    /\ UNCHANGED <<tx_queue, blocks, commits, n_add_tx, service>>

get_tx_info(i) ==
    /\ tasks[i].pc = "received"
    /\ tasks[i].req.op = "get_tx_info"
    /\ LET r == get_tx_info_run(tasks[i].req.tx_hash, tx_queue, blocks)
       IN Finish(i, r.resp, r.calls)
    /\ UNCHANGED <<tx_queue, blocks, commits, n_add_tx, service>>

get_block(i) ==
    /\ tasks[i].pc = "received"
    /\ tasks[i].req.op = "get_block"
    /\ LET r == get_block_run(tasks[i].req.block_height, tasks[i].req.block_hash,
                              tasks[i].req.block_data_filter,
                              tasks[i].req.tx_data_filter, blocks)
       IN Finish(i, r.resp, r.calls)
    /\ UNCHANGED <<tx_queue, blocks, commits, n_add_tx, service>>

\* the ledger collaborator consumes pending entries into a block
process_block_data ==
    /\ tx_queue /= << >>
    /\ \E k \in 1..Len(tx_queue) :
          /\ blocks' = Append(blocks, new_block(blocks, tx_queue, k))
          /\ tx_queue' = SubSeq(tx_queue, k + 1, Len(tx_queue))
    /\ clock' = clock + 1
    /\ commits' = commits \cup {clock + 1}
    /\ UNCHANGED <<tasks, n_add_tx, service>>

\* the transport reports the loss of the message queue connection
callback_connection_lost_callback ==
    /\ n_lost < MaxLost
    /\ LET r == connection_lost_run(tx_queue)
       IN /\ n_lost' = n_lost + 1
          /\ n_close' = n_close + r.close
          /\ n_reconnect' = n_reconnect + r.reconnect
          /\ tx_queue' = r.tx_queue
    /\ UNCHANGED <<blocks, tasks, clock, commits, n_add_tx>>

Next ==
    \/ \E i \in TaskIds : DeliverTx(i)
    \/ \E i \in TaskIds : create_icx_tx(i)
    \/ \E i \in TaskIds : get_invoke_result(i)
    \/ \E i \in TaskIds : get_tx_info(i)
    \/ process_block_data

Spec == Init /\ [][Next]_vars

NextBlock ==
    \/ \E i \in TaskIds : DeliverBlock(i)
    \/ \E i \in TaskIds : create_icx_tx(i)
    \/ \E i \in TaskIds : get_block(i)
    \/ process_block_data

SpecBlock == Init /\ [][NextBlock]_vars

\* requests of every kind of the channel
ServiceRequests ==
    [op : {"create_icx_tx"}, kwargs : BlockTxs]
      \cup [op : {"get_invoke_result", "get_tx_info"},
            tx_hash : {tx_hash_of(kwargs) : kwargs \in BlockTxs} \cup {<<"deadbeef">>}]
      \cup {[op |-> "get_block", block_height |-> h, block_hash |-> b,
             block_data_filter |-> f, tx_data_filter |-> f] :
               h \in Heights, b \in {<< >>, block_hash_of(0)}, f \in Filters}

DeliverService(i) == \E req \in ServiceRequests : Deliver(i, req)

NextService ==
    \/ \E i \in TaskIds : DeliverService(i)
    \/ \E i \in TaskIds : create_icx_tx(i)
    \/ \E i \in TaskIds : get_invoke_result(i)
    \/ \E i \in TaskIds : get_tx_info(i)
    \/ \E i \in TaskIds : get_block(i)
    \/ process_block_data
    \/ callback_connection_lost_callback

SpecService == Init /\ [][NextService]_vars

\* ------------------------------------------------- properties: helpers
IsSubmission(i) == tasks[i].req.op = "create_icx_tx"

Done(i) == tasks[i].pc = "done"

Succeeded(i) == Done(i) /\ IsSubmission(i) /\ tasks[i].resp[1] = success

Rejected(i) ==
    Done(i) /\ IsSubmission(i) /\ tasks[i].resp = <<fail_tx_invalid_duplicated_hash, None>>

\* the request's hash
HashOf(i) == tx_hash_of(tasks[i].req.kwargs)

\* the number of pending entries with a hash
PendingCount(tx_hash) == Cardinality({k \in 1..Len(tx_queue) : tx_queue[k].txHash = tx_hash})

\* the step in which task i's handler runs
Handles(i, op) ==
    tasks[i].pc = "received" /\ tasks[i].req.op = op /\ tasks'[i].pc = "done"

\* a third submission of the same hash answered in the clock interval (from, to)
OtherSubmission(i, j, from, to) ==
    \E k \in TaskIds \ {i, j} :
        /\ Done(k) /\ IsSubmission(k) /\ HashOf(k) = HashOf(i)
        /\ from < tasks[k].finished /\ tasks[k].finished < to

Max(a, b) == IF a >= b THEN a ELSE b

\* i and j submit the identical transaction, j arrives while i is still
\* unanswered and the hash is then absent, and both are answered
ConcurrentPair(i, j) ==
    /\ i /= j /\ Done(i) /\ Done(j) /\ IsSubmission(i) /\ IsSubmission(j)
    /\ tasks[i].req.kwargs = tasks[j].req.kwargs
    /\ tasks[i].arrived < tasks[j].arrived /\ tasks[j].arrived < tasks[i].finished
    /\ tasks[j].fresh
    /\ ~OtherSubmission(i, j, tasks[j].arrived, Max(tasks[i].finished, tasks[j].finished))

\* C1: two concurrent submissions of an identical transaction, starting from
\* a state where its hash is neither pending nor committed, end with exactly
\* one success and one fail_tx_invalid_duplicated_hash, never two successes.
C1_ConcurrentDuplicates ==
    \A i, j \in TaskIds :
        ConcurrentPair(i, j) =>
            \/ Succeeded(i) /\ Rejected(j)
            \/ Rejected(i) /\ Succeeded(j)

\* two concurrent identical submissions were answered, the later arrival first
C1_Witness ==
    \E i, j \in TaskIds :
        /\ ConcurrentPair(i, j)
        /\ tasks[j].finished < tasks[i].finished
        /\ Succeeded(j) /\ Rejected(i)

\* C2: no two entries of the pending queue have the same txHash.
C2_PendingHashesUnique ==
    \A a, b \in 1..Len(tx_queue) :
        a /= b => tx_queue[a].txHash /= tx_queue[b].txHash

\* an accepted entry is pending after the ledger consumed an earlier one
C2_Witness ==
    /\ Len(tx_queue) = 1
    /\ commits /= {}
    /\ Cardinality({i \in TaskIds : Succeeded(i)}) = 2

\* C3: no hash is at once in the pending queue and committed in the ledger.
C3_Partition ==
    \A k \in 1..Len(tx_queue) : get_transaction(blocks, tx_queue[k].txHash) = None

\* a committed transaction was submitted again, rejected and not queued
C3_Witness ==
    \E i \in TaskIds :
        /\ Rejected(i)
        /\ get_transaction(blocks, HashOf(i)) /= None
        /\ PendingCount(HashOf(i)) = 0

\* i is answered before j arrives, both submit the same payload, the hash is
\* absent when i arrives and nothing else touches the hash in between
SequentialPair(i, j) ==
    /\ i /= j /\ Done(i) /\ Done(j) /\ IsSubmission(i) /\ IsSubmission(j)
    /\ tasks[i].req.kwargs = tasks[j].req.kwargs
    /\ tasks[i].fresh
    /\ tasks[i].finished < tasks[j].arrived
    /\ \A c \in commits : c < tasks[i].arrived \/ c > tasks[j].finished
    /\ ~OtherSubmission(i, j, tasks[i].arrived, tasks[j].finished)

\* C4: the same payload submitted twice in sequence, with no commit in
\* between and the hash absent at first, gets success and then
\* fail_tx_invalid_duplicated_hash, and the queue then holds exactly one entry
\* for the hash.
C4_IdempotentRejection ==
    \A i, j \in TaskIds :
        SequentialPair(i, j) =>
            /\ tasks[i].resp = <<success, [str |-> <<"0x">> \o HashOf(i)]>>
            /\ tasks[j].resp = <<fail_tx_invalid_duplicated_hash, None>>
            /\ clock = tasks[j].finished => PendingCount(HashOf(i)) = 1

\* the second of two sequential submissions has just been answered
C4_Witness ==
    \E i, j \in TaskIds :
        /\ SequentialPair(i, j)
        /\ clock = tasks[j].finished
        /\ Succeeded(i) /\ Rejected(j)
        /\ PendingCount(HashOf(i)) = 1

\* C5: a submission whose hash is pending or committed is answered
\* (fail_tx_invalid_duplicated_hash, None) and changes neither the pending
\* queue nor the ledger.
C5_DuplicateNoMutation ==
    [][\A i \in TaskIds :
          (Handles(i, "create_icx_tx") /\ ~Absent(tx_queue, blocks, HashOf(i))) =>
              /\ tasks'[i].resp = <<fail_tx_invalid_duplicated_hash, None>>
              /\ tx_queue' = tx_queue
              /\ blocks' = blocks]_vars

\* a submission was rejected because the ledger holds its transaction
C5_Witness ==
    \E i \in TaskIds :
        /\ Rejected(i)
        /\ Len(tasks[i].calls) = 2
        /\ tasks[i].calls[2].ret /= None
        /\ tasks[i].calls[2].ret.txHash = HashOf(i)

\* the successful responses
Successes == {i \in TaskIds : Succeeded(i)}

\* C6: a submission whose hash is neither pending nor committed appends exactly
\* one entry {hash, tx} and is answered (success, "0x" + hash) with the hash of
\* the appended entry; the number of successes equals the number of entries
\* ever appended.
C6_AppendOnSuccess ==
    /\ [](Cardinality(Successes) = n_add_tx)
    /\ [][\A i \in TaskIds :
             (Handles(i, "create_icx_tx") /\ Absent(tx_queue, blocks, HashOf(i))) =>
                 /\ Len(tx_queue') = Len(tx_queue) + 1
                 /\ SubSeq(tx_queue', 1, Len(tx_queue)) = tx_queue
                 /\ tx_queue'[Len(tx_queue')].tx = tasks[i].req.kwargs
                 /\ tx_queue'[Len(tx_queue')].txHash = HashOf(i)
                 /\ tasks'[i].resp =
                      <<success, [str |-> <<"0x">> \o tx_queue'[Len(tx_queue')].txHash]>>
                 /\ blocks' = blocks]_vars

\* two different transactions were accepted and both entries are pending
C6_Witness ==
    /\ Cardinality(Successes) = 2
    /\ n_add_tx = 2
    /\ Len(tx_queue) = 2

\* ------------------------------------------------------------ get_block
IsBlockRequest(i) == tasks[i].req.op = "get_block"

\* C7: get_block makes exactly one ledger fetch per request: the latest block
\* when the hash is empty and the height is -1, else the block by hash when
\* the hash is not empty (whatever the height), else the block by height.
C7_SelectionOrder ==
    \A i \in TaskIds :
        (Done(i) /\ IsBlockRequest(i)) =>
            LET req == tasks[i].req
                calls == tasks[i].calls
            IN /\ Len(calls) = 1
               /\ (req.block_hash = << >> /\ req.block_height = -1)
                     => calls[1].fn = "get_last_block"
               /\ req.block_hash /= << >>
                     => /\ calls[1].fn = "get_block_by_hash"
                        /\ calls[1].block_hash = req.block_hash
               /\ (req.block_hash = << >> /\ req.block_height /= -1)
                     => /\ calls[1].fn = "get_block_by_height"
                        /\ calls[1].block_height = req.block_height

\* a request with a hash and a height that name different blocks got the
\* block of the hash
C7_Witness ==
    \E i \in TaskIds :
        /\ Done(i) /\ IsBlockRequest(i)
        /\ tasks[i].req.block_hash = block_hash_of(0)
        /\ tasks[i].req.block_height = 1
        /\ tasks[i].calls[1].fn = "get_block_by_hash"
        /\ tasks[i].resp[1] = success
        /\ tasks[i].resp[2] = block_hash_of(0)

\* C8: when the selected fetch returns nothing the response is
\* (fail_wrong_block_hash, input hash, "", []) for a fetch by hash or of the
\* latest block and (fail_wrong_block_height, input hash, "", []) for a fetch
\* by height; success is never returned for a fetch that returned nothing.
C8_NotFound ==
    \A i \in TaskIds :
        (Done(i) /\ IsBlockRequest(i)) =>
            LET req == tasks[i].req
                fetch == tasks[i].calls[1]
            IN /\ (fetch.ret = None /\ fetch.fn \in {"get_last_block", "get_block_by_hash"})
                     => tasks[i].resp = <<fail_wrong_block_hash, req.block_hash, << >>, << >> >>
               /\ (fetch.ret = None /\ fetch.fn = "get_block_by_height")
                     => tasks[i].resp = <<fail_wrong_block_height, req.block_hash, << >>, << >> >>
               /\ tasks[i].resp[1] = success => fetch.ret /= None

\* the latest block was requested from an empty ledger
C8_Witness ==
    \E i \in TaskIds :
        /\ Done(i) /\ IsBlockRequest(i)
        /\ tasks[i].calls[1].fn = "get_last_block"
        /\ tasks[i].calls[1].ret = None
        /\ tasks[i].resp = <<fail_wrong_block_hash, << >>, << >>, << >> >>

\* C9: a get_block whose fetch returns a block is answered with success, the
\* fetched block's own block_hash, its serialization and an empty filtered
\* list; the fetch and the response are the same for every value of
\* block_data_filter and tx_data_filter.
C9_SuccessIgnoresFilters ==
    [][\A i \in TaskIds :
          Handles(i, "get_block") =>
              LET req == tasks[i].req
                  fetch == tasks'[i].calls[1]
                  plain == get_block_run(req.block_height, req.block_hash,
                                         << >>, << >>, blocks)
              IN /\ tasks'[i].resp = plain.resp
                 /\ tasks'[i].calls = plain.calls
                 /\ fetch.ret /= None =>
                       tasks'[i].resp = <<success, fetch.ret.block_hash,
                                          json_dumps_block(fetch.ret), << >> >>]_vars

\* a request with both filters set and no hash got the latest block, and
\* the resolved hash is the block's, not the input
C9_Witness ==
    \E i \in TaskIds :
        /\ Done(i) /\ IsBlockRequest(i)
        /\ tasks[i].req.block_data_filter /= << >>
        /\ tasks[i].req.tx_data_filter /= << >>
        /\ tasks[i].req.block_hash = << >>
        /\ tasks[i].resp[1] = success
        /\ tasks[i].resp[2] = block_hash_of(0)
        /\ tasks[i].resp[4] = << >>

\* ------------------------------------- get_invoke_result and get_tx_info
\* C10: get_invoke_result and get_tx_info read only the ledger: they answer
\* (success, value) exactly when the ledger has a result / a transaction for
\* the hash, and (fail_tx_not_invoked, {}) / (fail_tx_invalid_hash_not_match,
\* {}) otherwise, also when the hash is pending.
C10_CommittedOnly ==
    [][\A i \in TaskIds :
          /\ Handles(i, "get_invoke_result") =>
                LET result == get_txresult(blocks, tasks[i].req.tx_hash)
                IN /\ result = None => tasks'[i].resp = <<fail_tx_not_invoked, << >> >>
                   /\ result /= None => tasks'[i].resp = <<success, result>>
                   /\ \A c \in 1..Len(tasks'[i].calls) : tasks'[i].calls[c].fn = "get_txresult"
                   /\ UNCHANGED <<tx_queue, blocks>>
          /\ Handles(i, "get_tx_info") =>
                LET tx == get_transaction(blocks, tasks[i].req.tx_hash)
                IN /\ tx = None => tasks'[i].resp = <<fail_tx_invalid_hash_not_match, << >> >>
                   /\ tx /= None => tasks'[i].resp = <<success, tx>>
                   /\ \A c \in 1..Len(tasks'[i].calls) : tasks'[i].calls[c].fn = "get_transaction"
                   /\ UNCHANGED <<tx_queue, blocks>>]_vars

\* get_tx_info was asked about a hash that is pending and not committed
C10_Witness ==
    \E i \in TaskIds :
        /\ Done(i)
        /\ tasks[i].req.op = "get_tx_info"
        /\ PendingCount(tasks[i].req.tx_hash) = 1
        /\ get_transaction(blocks, tasks[i].req.tx_hash) = None
        /\ tasks[i].resp = <<fail_tx_invalid_hash_not_match, << >> >>

\* ----------------------------------------------------- request hash
\* the two mappings have the same field names and values
SameContent(d, e) ==
    {d[k] : k \in 1..Len(d)} = {e[k] : k \in 1..Len(e)}

\* C11: two submissions whose mappings have the same field names and values
\* get the same identifier, whatever the insertion order of the fields, and
\* so never both succeed.
C11_HashOfContent ==
    \A i, j \in TaskIds :
        (i /= j /\ Done(i) /\ Done(j) /\ IsSubmission(i) /\ IsSubmission(j)
              /\ SameContent(tasks[i].req.kwargs, tasks[j].req.kwargs)) =>
            /\ HashOf(i) = HashOf(j)
            /\ ~(Succeeded(i) /\ Succeeded(j))

\* ------------------------------------------------------------ responses
\* the status codes of the channel
Taxonomy ==
    {success, fail_tx_invalid_duplicated_hash, fail_tx_not_invoked,
     fail_tx_invalid_hash_not_match, fail_wrong_block_hash, fail_wrong_block_height}

\* every component of the response after the status is None or empty
EmptyPayload(i) ==
    IF tasks[i].req.op = "create_icx_tx" THEN tasks[i].resp[2] = None
    ELSE IF tasks[i].req.op = "get_block"
    THEN tasks[i].resp[2] = << >> /\ tasks[i].resp[3] = << >> /\ tasks[i].resp[4] = << >>
    ELSE tasks[i].resp[2] = << >>

\* as EmptyPayload, but a failed get_block echoes the block_hash of the request
EmptyPayloadButEcho(i) ==
    IF tasks[i].req.op = "get_block"
    THEN /\ tasks[i].resp[2] = tasks[i].req.block_hash
         /\ tasks[i].resp[3] = << >>
         /\ tasks[i].resp[4] = << >>
    ELSE EmptyPayload(i)

\* C12 as stated: every answered request has a status of the taxonomy, and a
\* failure status comes with a None / empty payload.
C12_FailureEmptyPayload ==
    \A i \in TaskIds :
        Done(i) =>
            /\ tasks[i].resp /= << >>
            /\ tasks[i].resp[1] \in Taxonomy
            /\ tasks[i].resp[1] /= success => EmptyPayload(i)

\* C12, amended: every answered request has a status of the taxonomy, and a
\* failure status comes with a None / empty payload, except that a failed
\* get_block returns the block_hash of the request as resolved_hash (with an
\* empty body and an empty list).
C12_FailureEmptyOrEcho ==
    \A i \in TaskIds :
        Done(i) =>
            /\ tasks[i].resp /= << >>
            /\ tasks[i].resp[1] \in Taxonomy
            /\ tasks[i].resp[1] /= success => EmptyPayloadButEcho(i)

\* a get_block by hash failed and returned the hash of the request, and a
\* query of another kind failed with an empty payload
C12_Witness ==
    \E i, j \in TaskIds :
        /\ Done(i) /\ IsBlockRequest(i)
        /\ tasks[i].resp[1] = fail_wrong_block_hash
        /\ tasks[i].resp[2] = block_hash_of(0)
        /\ Done(j) /\ tasks[j].req.op = "get_invoke_result"
        /\ tasks[j].resp = <<fail_tx_not_invoked, << >> >>

\* ------------------------------------------------------- connection loss
\* C13: every connection-lost callback makes exactly one close() call on the
\* block manager, never connects to the message queue again and leaves the
\* pending queue as it is.
C13_ShutdownOnLoss ==
    /\ [](n_close = n_lost /\ n_reconnect = 0)
    /\ [][n_lost' /= n_lost =>
             /\ n_close' = n_close + 1
             /\ n_reconnect' = n_reconnect
             /\ tx_queue' = tx_queue]_vars

\* the connection was lost twice while an entry was pending
C13_Witness ==
    /\ n_lost = 2
    /\ n_close = 2
    /\ Len(tx_queue) >= 1

\* ---------------------------------------------------- hash life cycle
\* 0: absent, 1: pending, 2: committed
HashRank(tx_hash) ==
    IF get_transaction(blocks, tx_hash) /= None THEN 2
    ELSE IF PendingCount(tx_hash) > 0 THEN 1
    ELSE 0

\* C14: a hash only moves from absent to pending to committed, and once a
\* submission succeeded every later submission of the same transaction is
\* answered fail_tx_invalid_duplicated_hash, before and after its commit.
C14_ForwardOnly ==
    /\ [](\A i, j \in TaskIds :
            (i /= j /\ Succeeded(i) /\ Done(j) /\ IsSubmission(j)
                 /\ HashOf(i) = HashOf(j)
                 /\ tasks[i].finished < tasks[j].finished) => Rejected(j))
    /\ [][\A h \in TxHashes : HashRank(h)' >= HashRank(h)]_vars

\* a transaction was accepted, committed, and only then submitted again and
\* rejected
C14_Witness ==
    \E i, j \in TaskIds :
        /\ Succeeded(i) /\ Rejected(j)
        /\ HashOf(i) = HashOf(j)
        /\ \E c \in commits : tasks[i].finished < c /\ c < tasks[j].arrived
        /\ HashRank(HashOf(i)) = 2

\* C15: create_icx_tx scans the pending queue first and asks the ledger for
\* the committed transaction exactly when no pending entry matched: at most
\* once, and never when a pending entry has the hash.
C15_CheckOrder ==
    [][\A i \in TaskIds :
          Handles(i, "create_icx_tx") =>
              LET calls == tasks'[i].calls
                  pending == PendingCount(HashOf(i)) > 0
              IN /\ calls[1].fn = "tx_queue"
                 /\ pending => Len(calls) = 1
                 /\ ~pending =>
                       /\ Len(calls) = 2
                       /\ calls[2].fn = "get_transaction"
                       /\ calls[2].tx_hash = HashOf(i)]_vars

\* a submission matched a pending entry and the ledger was not asked
C15_Witness ==
    \E i \in TaskIds :
        /\ Rejected(i)
        /\ PendingCount(HashOf(i)) = 1
        /\ Len(tasks[i].calls) = 1
        /\ tasks[i].calls[1].fn = "tx_queue"

\* ------------------------------------------------------------- frame
IsPrefix(a, b) == Len(a) <= Len(b) /\ SubSeq(b, 1, Len(a)) = a

\* C16: no handler changes the ledger; get_invoke_result, get_tx_info and
\* get_block leave the pending queue unchanged and create_icx_tx at most
\* appends one entry, so the queue before is a prefix of the queue after.
C16_AppendOnly ==
    [][\A i \in TaskIds :
          (tasks[i].pc = "received" /\ tasks'[i].pc = "done") =>
              /\ blocks' = blocks
              /\ IsPrefix(tx_queue, tx_queue')
              /\ Len(tx_queue') <= Len(tx_queue) + 1
              /\ tasks[i].req.op /= "create_icx_tx" => tx_queue' = tx_queue]_vars

\* two accepted entries are pending in the order of their submissions
C16_Witness ==
    \E i, j \in TaskIds :
        /\ Succeeded(i) /\ Succeeded(j)
        /\ tasks[i].finished < tasks[j].finished
        /\ Len(tx_queue) = 2
        /\ tx_queue[1].txHash = HashOf(i)
        /\ tx_queue[2].txHash = HashOf(j)

\* ------------------------------------------------- one fetch per block
\* C17: a successful get_block response takes its resolved_hash and its
\* block_body from one ledger fetch: both describe the same committed block,
\* also when blocks are committed while the request is in flight.
C17_HashAndBodyAgree ==
    \A i \in TaskIds :
        (Done(i) /\ IsBlockRequest(i) /\ tasks[i].resp[1] = success) =>
            /\ Len(tasks[i].calls) = 1
            /\ tasks[i].resp[2] = tasks[i].calls[1].ret.block_hash
            /\ tasks[i].resp[3] = json_dumps_block(tasks[i].calls[1].ret)
            /\ \E n \in 1..Len(blocks) :
                  /\ blocks[n].block_hash = tasks[i].resp[2]
                  /\ json_dumps_block(blocks[n]) = tasks[i].resp[3]

\* a request for the latest block arrived when the ledger was empty and was
\* answered with the block committed in the meantime
C17_Witness ==
    \E i \in TaskIds :
        /\ Done(i) /\ IsBlockRequest(i)
        /\ tasks[i].req.block_hash = << >> /\ tasks[i].req.block_height = -1
        /\ tasks[i].ledger0 = 0
        /\ tasks[i].resp[1] = success
        /\ tasks[i].resp[2] = block_hash_of(0)
        /\ tasks[i].resp[3] = json_dumps_block(blocks[1])

====
